---- MODULE Spec2Model ----
(***************************************************************************)
(* TimeDate MCP server (timedate-mcp-server/src/lib.rs): the seven tools   *)
(* and four resources of TimeDateServer, over chrono / chrono-tz.          *)
(*                                                                         *)
(* Strings are sequences of one-character strings, so that parsing,        *)
(* formatting, case folding and substring search are computed character    *)
(* by character.  An instant is [day, sod, nano]: days since 1970-01-01,   *)
(* second of the day, nanosecond of the second (all UTC).                  *)
(***************************************************************************)
EXTENDS Integers, Sequences, FiniteSets, TLC

VARIABLES clock, env, last

vars == <<clock, env, last>>

----------------------------------------------------------------------------
(* Characters and strings (std::string::String)                            *)

Digits == <<"0", "1", "2", "3", "4", "5", "6", "7", "8", "9">>

UpperCase == <<"A", "B", "C", "D", "E", "F", "G", "H", "I", "J", "K", "L", "M",
               "N", "O", "P", "Q", "R", "S", "T", "U", "V", "W", "X", "Y", "Z">>

LowerCase == <<"a", "b", "c", "d", "e", "f", "g", "h", "i", "j", "k", "l", "m",
               "n", "o", "p", "q", "r", "s", "t", "u", "v", "w", "x", "y", "z">>

IsDigit(ch) == \E i \in 1..Len(Digits) : Digits[i] = ch

DigitVal(ch) == (CHOOSE i \in 1..Len(Digits) : Digits[i] = ch) - 1

LowerChar(ch) ==
    IF \E i \in 1..Len(UpperCase) : UpperCase[i] = ch
    THEN LowerCase[CHOOSE i \in 1..Len(UpperCase) : UpperCase[i] = ch]
    ELSE ch

\* a comparison that forgets to fold the case
to_lowercase_forgotten(s) == s

\* str::to_lowercase on ASCII text
to_lowercase(s) == [i \in 1..Len(s) |-> LowerChar(s[i])]

\* str::contains with a string pattern
contains(hay, needle) ==
    \E i \in 0..(Len(hay) - Len(needle)) :
        SubSeq(hay, i + 1, i + Len(needle)) = needle

\* str::starts_with
starts_with(s, prefix) ==
    /\ Len(prefix) <= Len(s)
    /\ SubSeq(s, 1, Len(prefix)) = prefix

None == [some |-> FALSE]

Some(x) == [some |-> TRUE, val |-> x]

----------------------------------------------------------------------------
(* chrono_tz::TZ_VARIANTS: the zone catalog in its enumeration order (an   *)
(* order-preserving excerpt of the tz database's names).                   *)

TZ_VARIANTS ==
    << <<"A", "f", "r", "i", "c", "a", "/", "A", "b", "i", "d", "j", "a", "n">>,
       <<"A", "f", "r", "i", "c", "a", "/", "A", "c", "c", "r", "a">>,
       <<"A", "f", "r", "i", "c", "a", "/", "A", "d", "d", "i", "s", "_", "A", "b", "a", "b", "a">>,
       <<"A", "f", "r", "i", "c", "a", "/", "A", "l", "g", "i", "e", "r", "s">>,
       <<"A", "f", "r", "i", "c", "a", "/", "A", "s", "m", "a", "r", "a">>,
       <<"A", "f", "r", "i", "c", "a", "/", "A", "s", "m", "e", "r", "a">>,
       <<"A", "f", "r", "i", "c", "a", "/", "B", "a", "m", "a", "k", "o">>,
       <<"A", "f", "r", "i", "c", "a", "/", "B", "a", "n", "g", "u", "i">>,
       <<"A", "f", "r", "i", "c", "a", "/", "B", "a", "n", "j", "u", "l">>,
       <<"A", "f", "r", "i", "c", "a", "/", "B", "i", "s", "s", "a", "u">>,
       <<"A", "f", "r", "i", "c", "a", "/", "B", "l", "a", "n", "t", "y", "r", "e">>,
       <<"A", "f", "r", "i", "c", "a", "/", "B", "r", "a", "z", "z", "a", "v", "i", "l", "l", "e">>,
       <<"A", "f", "r", "i", "c", "a", "/", "B", "u", "j", "u", "m", "b", "u", "r", "a">>,
       <<"A", "f", "r", "i", "c", "a", "/", "C", "a", "i", "r", "o">>,
       <<"A", "f", "r", "i", "c", "a", "/", "C", "a", "s", "a", "b", "l", "a", "n", "c", "a">>,
       <<"A", "f", "r", "i", "c", "a", "/", "C", "e", "u", "t", "a">>,
       <<"A", "f", "r", "i", "c", "a", "/", "C", "o", "n", "a", "k", "r", "y">>,
       <<"A", "f", "r", "i", "c", "a", "/", "D", "a", "k", "a", "r">>,
       <<"A", "f", "r", "i", "c", "a", "/", "D", "a", "r", "_", "e", "s", "_", "S", "a", "l", "a", "a", "m">>,
       <<"A", "f", "r", "i", "c", "a", "/", "D", "j", "i", "b", "o", "u", "t", "i">>,
       <<"A", "f", "r", "i", "c", "a", "/", "D", "o", "u", "a", "l", "a">>,
       <<"A", "f", "r", "i", "c", "a", "/", "E", "l", "_", "A", "a", "i", "u", "n">>,
       <<"A", "f", "r", "i", "c", "a", "/", "F", "r", "e", "e", "t", "o", "w", "n">>,
       <<"A", "f", "r", "i", "c", "a", "/", "G", "a", "b", "o", "r", "o", "n", "e">>,
       <<"A", "f", "r", "i", "c", "a", "/", "H", "a", "r", "a", "r", "e">>,
       <<"A", "f", "r", "i", "c", "a", "/", "J", "o", "h", "a", "n", "n", "e", "s", "b", "u", "r", "g">>,
       <<"A", "f", "r", "i", "c", "a", "/", "J", "u", "b", "a">>,
       <<"A", "f", "r", "i", "c", "a", "/", "K", "a", "m", "p", "a", "l", "a">>,
       <<"A", "f", "r", "i", "c", "a", "/", "K", "h", "a", "r", "t", "o", "u", "m">>,
       <<"A", "f", "r", "i", "c", "a", "/", "K", "i", "g", "a", "l", "i">>,
       <<"A", "f", "r", "i", "c", "a", "/", "K", "i", "n", "s", "h", "a", "s", "a">>,
       <<"A", "f", "r", "i", "c", "a", "/", "L", "a", "g", "o", "s">>,
       <<"A", "f", "r", "i", "c", "a", "/", "L", "i", "b", "r", "e", "v", "i", "l", "l", "e">>,
       <<"A", "f", "r", "i", "c", "a", "/", "L", "o", "m", "e">>,
       <<"A", "f", "r", "i", "c", "a", "/", "L", "u", "a", "n", "d", "a">>,
       <<"A", "f", "r", "i", "c", "a", "/", "L", "u", "b", "u", "m", "b", "a", "s", "h", "i">>,
       <<"A", "f", "r", "i", "c", "a", "/", "L", "u", "s", "a", "k", "a">>,
       <<"A", "f", "r", "i", "c", "a", "/", "M", "a", "l", "a", "b", "o">>,
       <<"A", "f", "r", "i", "c", "a", "/", "M", "a", "p", "u", "t", "o">>,
       <<"A", "f", "r", "i", "c", "a", "/", "M", "a", "s", "e", "r", "u">>,
       <<"A", "f", "r", "i", "c", "a", "/", "M", "b", "a", "b", "a", "n", "e">>,
       <<"A", "f", "r", "i", "c", "a", "/", "M", "o", "g", "a", "d", "i", "s", "h", "u">>,
       <<"A", "f", "r", "i", "c", "a", "/", "M", "o", "n", "r", "o", "v", "i", "a">>,
       <<"A", "f", "r", "i", "c", "a", "/", "N", "a", "i", "r", "o", "b", "i">>,
       <<"A", "f", "r", "i", "c", "a", "/", "N", "d", "j", "a", "m", "e", "n", "a">>,
       <<"A", "f", "r", "i", "c", "a", "/", "N", "i", "a", "m", "e", "y">>,
       <<"A", "f", "r", "i", "c", "a", "/", "N", "o", "u", "a", "k", "c", "h", "o", "t", "t">>,
       <<"A", "f", "r", "i", "c", "a", "/", "O", "u", "a", "g", "a", "d", "o", "u", "g", "o", "u">>,
       <<"A", "f", "r", "i", "c", "a", "/", "P", "o", "r", "t", "o", "-", "N", "o", "v", "o">>,
       <<"A", "f", "r", "i", "c", "a", "/", "S", "a", "o", "_", "T", "o", "m", "e">>,
       <<"A", "f", "r", "i", "c", "a", "/", "T", "i", "m", "b", "u", "k", "t", "u">>,
       <<"A", "f", "r", "i", "c", "a", "/", "T", "r", "i", "p", "o", "l", "i">>,
       <<"A", "f", "r", "i", "c", "a", "/", "T", "u", "n", "i", "s">>,
       <<"A", "f", "r", "i", "c", "a", "/", "W", "i", "n", "d", "h", "o", "e", "k">>,
       <<"A", "m", "e", "r", "i", "c", "a", "/", "A", "d", "a", "k">>,
       <<"A", "m", "e", "r", "i", "c", "a", "/", "A", "n", "c", "h", "o", "r", "a", "g", "e">>,
       <<"A", "m", "e", "r", "i", "c", "a", "/", "A", "n", "g", "u", "i", "l", "l", "a">>,
       <<"A", "m", "e", "r", "i", "c", "a", "/", "A", "n", "t", "i", "g", "u", "a">>,
       <<"A", "m", "e", "r", "i", "c", "a", "/", "A", "r", "a", "g", "u", "a", "i", "n", "a">>,
       <<"A", "m", "e", "r", "i", "c", "a", "/", "A", "r", "g", "e", "n", "t", "i", "n", "a", "/", "B", "u", "e", "n", "o", "s", "_", "A", "i", "r", "e", "s">>,
       <<"A", "m", "e", "r", "i", "c", "a", "/", "A", "r", "g", "e", "n", "t", "i", "n", "a", "/", "C", "a", "t", "a", "m", "a", "r", "c", "a">>,
       <<"A", "m", "e", "r", "i", "c", "a", "/", "A", "r", "g", "e", "n", "t", "i", "n", "a", "/", "C", "o", "r", "d", "o", "b", "a">>,
       <<"A", "m", "e", "r", "i", "c", "a", "/", "A", "r", "g", "e", "n", "t", "i", "n", "a", "/", "J", "u", "j", "u", "y">>,
       <<"A", "m", "e", "r", "i", "c", "a", "/", "A", "r", "g", "e", "n", "t", "i", "n", "a", "/", "L", "a", "_", "R", "i", "o", "j", "a">>,
       <<"A", "m", "e", "r", "i", "c", "a", "/", "A", "r", "g", "e", "n", "t", "i", "n", "a", "/", "M", "e", "n", "d", "o", "z", "a">>,
       <<"A", "m", "e", "r", "i", "c", "a", "/", "A", "r", "g", "e", "n", "t", "i", "n", "a", "/", "S", "a", "l", "t", "a">>,
       <<"A", "m", "e", "r", "i", "c", "a", "/", "A", "r", "g", "e", "n", "t", "i", "n", "a", "/", "S", "a", "n", "_", "J", "u", "a", "n">>,
       <<"A", "m", "e", "r", "i", "c", "a", "/", "A", "r", "g", "e", "n", "t", "i", "n", "a", "/", "S", "a", "n", "_", "L", "u", "i", "s">>,
       <<"A", "m", "e", "r", "i", "c", "a", "/", "A", "r", "g", "e", "n", "t", "i", "n", "a", "/", "T", "u", "c", "u", "m", "a", "n">>,
       <<"A", "m", "e", "r", "i", "c", "a", "/", "A", "r", "g", "e", "n", "t", "i", "n", "a", "/", "U", "s", "h", "u", "a", "i", "a">>,
       <<"A", "m", "e", "r", "i", "c", "a", "/", "A", "r", "u", "b", "a">>,
       <<"A", "m", "e", "r", "i", "c", "a", "/", "A", "s", "u", "n", "c", "i", "o", "n">>,
       <<"A", "m", "e", "r", "i", "c", "a", "/", "A", "t", "i", "k", "o", "k", "a", "n">>,
       <<"A", "m", "e", "r", "i", "c", "a", "/", "A", "t", "k", "a">>,
       <<"A", "m", "e", "r", "i", "c", "a", "/", "B", "a", "h", "i", "a">>,
       <<"A", "m", "e", "r", "i", "c", "a", "/", "B", "a", "r", "b", "a", "d", "o", "s">>,
       <<"A", "m", "e", "r", "i", "c", "a", "/", "B", "e", "l", "e", "m">>,
       <<"A", "m", "e", "r", "i", "c", "a", "/", "B", "e", "l", "i", "z", "e">>,
       <<"A", "m", "e", "r", "i", "c", "a", "/", "B", "o", "g", "o", "t", "a">>,
       <<"A", "m", "e", "r", "i", "c", "a", "/", "B", "o", "i", "s", "e">>,
       <<"A", "m", "e", "r", "i", "c", "a", "/", "B", "u", "e", "n", "o", "s", "_", "A", "i", "r", "e", "s">>,
       <<"A", "m", "e", "r", "i", "c", "a", "/", "C", "a", "n", "c", "u", "n">>,
       <<"A", "m", "e", "r", "i", "c", "a", "/", "C", "a", "r", "a", "c", "a", "s">>,
       <<"A", "m", "e", "r", "i", "c", "a", "/", "C", "a", "t", "a", "m", "a", "r", "c", "a">>,
       <<"A", "m", "e", "r", "i", "c", "a", "/", "C", "a", "y", "e", "n", "n", "e">>,
       <<"A", "m", "e", "r", "i", "c", "a", "/", "C", "a", "y", "m", "a", "n">>,
       <<"A", "m", "e", "r", "i", "c", "a", "/", "C", "h", "i", "c", "a", "g", "o">>,
       <<"A", "m", "e", "r", "i", "c", "a", "/", "C", "h", "i", "h", "u", "a", "h", "u", "a">>,
       <<"A", "m", "e", "r", "i", "c", "a", "/", "D", "e", "n", "v", "e", "r">>,
       <<"A", "m", "e", "r", "i", "c", "a", "/", "D", "e", "t", "r", "o", "i", "t">>,
       <<"A", "m", "e", "r", "i", "c", "a", "/", "H", "a", "v", "a", "n", "a">>,
       <<"A", "m", "e", "r", "i", "c", "a", "/", "L", "i", "m", "a">>,
       <<"A", "m", "e", "r", "i", "c", "a", "/", "L", "o", "s", "_", "A", "n", "g", "e", "l", "e", "s">>,
       <<"A", "m", "e", "r", "i", "c", "a", "/", "M", "e", "x", "i", "c", "o", "_", "C", "i", "t", "y">>,
       <<"A", "m", "e", "r", "i", "c", "a", "/", "N", "e", "w", "_", "Y", "o", "r", "k">>,
       <<"A", "m", "e", "r", "i", "c", "a", "/", "T", "o", "r", "o", "n", "t", "o">>,
       <<"A", "s", "i", "a", "/", "K", "o", "l", "k", "a", "t", "a">>,
       <<"A", "s", "i", "a", "/", "T", "o", "k", "y", "o">>,
       <<"E", "u", "r", "o", "p", "e", "/", "B", "e", "r", "l", "i", "n">>,
       <<"E", "u", "r", "o", "p", "e", "/", "L", "o", "n", "d", "o", "n">>,
       <<"U", "T", "C">>,
       <<"Z", "u", "l", "u">> >>

\* Tz::from_str: exact, case-sensitive lookup of a zone name
ZONE_SET == {TZ_VARIANTS[i] : i \in 1..Len(TZ_VARIANTS)}

IsZone(name) == name \in ZONE_SET

Ok(v) == [ok |-> TRUE, val |-> v]

Err(kind, arg) == [ok |-> FALSE, kind |-> kind, arg |-> arg]

ZONE_UTC == <<"U", "T", "C">>

ZONE_NEW_YORK == <<"A", "m", "e", "r", "i", "c", "a", "/", "N", "e", "w", "_", "Y", "o", "r", "k">>

ZONE_KOLKATA == <<"A", "s", "i", "a", "/", "K", "o", "l", "k", "a", "t", "a">>

----------------------------------------------------------------------------
(* chrono: the proleptic Gregorian calendar                                *)

SECS_PER_DAY == 24 * 3600

is_leap_year(y) == (y % 4 = 0 /\ y % 100 # 0) \/ y % 400 = 0

days_in_month(y, m) ==
    IF m = 2 THEN (IF is_leap_year(y) THEN 29 ELSE 28)
    ELSE IF m \in {4, 6, 9, 11} THEN 30 ELSE 31

\* days since 1970-01-01 of the civil date y-m-d
days_from_civil(y, m, d) ==
    LET yy  == IF m <= 2 THEN y - 1 ELSE y
        era == yy \div 400
        yoe == yy - era * 400
        mp  == IF m > 2 THEN m - 3 ELSE m + 9
        doy == (153 * mp + 2) \div 5 + d - 1
        doe == yoe * 365 + yoe \div 4 - yoe \div 100 + doy
    IN  era * 146097 + doe - 719468

\* the civil date of the day z days after 1970-01-01
civil_from_days(z) ==
    LET zz  == z + 719468
        era == zz \div 146097
        doe == zz - era * 146097
        yoe == (doe - doe \div 1460 + doe \div 36524 - doe \div 146096) \div 365
        doy == doe - (365 * yoe + yoe \div 4 - yoe \div 100)
        mp  == (5 * doy + 2) \div 153
        d   == doy - (153 * mp + 2) \div 5 + 1
        m   == IF mp < 10 THEN mp + 3 ELSE mp - 9
        y   == yoe + era * 400
    IN  [year |-> IF m <= 2 THEN y + 1 ELSE y, month |-> m, day |-> d]

Instant(day, sod, nano) == [day |-> day, sod |-> sod, nano |-> nano]

\* an instant moved by secs seconds, |secs| below two days
add_secs(t, secs) ==
    LET total == t.sod + secs
    IN  Instant(t.day + total \div SECS_PER_DAY, total % SECS_PER_DAY, t.nano)

before(a, b) == a.day < b.day \/ (a.day = b.day /\ a.sod < b.sod)

----------------------------------------------------------------------------
(* chrono-tz: the rules of the zones the requests name.  The daylight      *)
(* period of America/New_York is the one of 2024.                          *)

NY_DST_START == Instant(days_from_civil(2024, 3, 10), 7 * 3600, 0)

NY_DST_END == Instant(days_from_civil(2024, 11, 3), 6 * 3600, 0)

\* <Tz as TimeZone>::offset_from_utc_datetime: the offset and abbreviation
\* of zone tz in force at instant t
offset_from_utc_datetime(tz, t) ==
    IF tz = ZONE_NEW_YORK
    THEN IF ~before(t, NY_DST_START) /\ before(t, NY_DST_END)
         THEN [secs |-> -4 * 3600, abbr |-> <<"E", "D", "T">>]
         ELSE [secs |-> -5 * 3600, abbr |-> <<"E", "S", "T">>]
    ELSE IF tz = ZONE_KOLKATA
    THEN [secs |-> 5 * 3600 + 30 * 60, abbr |-> <<"I", "S", "T">>]
    ELSE [secs |-> 0, abbr |-> <<"U", "T", "C">>]

\* the zone's offset taken at the time of the call, not at the instant
with_timezone_at_call_time(t, tz) ==
    [utc |-> t, off |-> offset_from_utc_datetime(tz, clock)]

\* DateTime::with_timezone: the same instant seen through zone tz
with_timezone(t, tz) ==
    [utc |-> t, off |-> offset_from_utc_datetime(tz, t)]

----------------------------------------------------------------------------
(* chrono: formatting                                                      *)

\* decimal digits of n >= 0, zero-padded to at least width characters
RECURSIVE write_padded(_, _)
write_padded(n, width) ==
    IF width <= 1 /\ n < 10
    THEN <<Digits[n + 1]>>
    ELSE Append(write_padded(n \div 10, width - 1), Digits[(n % 10) + 1])

\* the year: four digits, or an explicit sign outside 0..9999
write_year(y) ==
    IF y >= 0 /\ y <= 9999 THEN write_padded(y, 4)
    ELSE IF y < 0 THEN <<"-">> \o write_padded(-y, 4)
    ELSE <<"+">> \o write_padded(y, 4)

\* DateTime::naive_local: the wall clock of dt, as an instant-shaped value
naive_local(dt) == add_secs(dt.utc, dt.off.secs)

hour_of(dt) == naive_local(dt).sod \div 3600

minute_of(dt) == (naive_local(dt).sod % 3600) \div 60

second_of(dt) == naive_local(dt).sod % 60

date_of(dt) == civil_from_days(naive_local(dt).day)

\* "%Y-%m-%d"
write_date(dt) ==
    write_year(date_of(dt).year) \o <<"-">> \o write_padded(date_of(dt).month, 2)
        \o <<"-">> \o write_padded(date_of(dt).day, 2)

\* "%H:%M:%S"
write_hms(dt) ==
    write_padded(hour_of(dt), 2) \o <<":">> \o write_padded(minute_of(dt), 2)
        \o <<":">> \o write_padded(second_of(dt), 2)

\* "%I:%M:%S %p"
write_hms_12(dt) ==
    write_padded(((hour_of(dt) + 11) % 12) + 1, 2) \o <<":">>
        \o write_padded(minute_of(dt), 2) \o <<":">>
        \o write_padded(second_of(dt), 2) \o <<" ">>
        \o (IF hour_of(dt) < 12 THEN <<"A", "M">> ELSE <<"P", "M">>)

\* "%z" (colon = FALSE) and the "+HH:MM" of RFC 3339 (colon = TRUE)
write_offset(secs, colon) ==
    LET a == IF secs < 0 THEN -secs ELSE secs
    IN  (IF secs < 0 THEN <<"-">> ELSE <<"+">>)
            \o write_padded(a \div 3600, 2)
            \o (IF colon THEN <<":">> ELSE <<>>)
            \o write_padded((a % 3600) \div 60, 2)

\* SecondsFormat::AutoSi: no fraction, or 3, 6 or 9 digits
write_fraction(nano) ==
    IF nano = 0 THEN <<>>
    ELSE IF nano % 1000000 = 0 THEN <<".">> \o write_padded(nano \div 1000000, 3)
    ELSE IF nano % 1000 = 0 THEN <<".">> \o write_padded(nano \div 1000, 6)
    ELSE <<".">> \o write_padded(nano, 9)

\* DateTime::to_rfc3339
to_rfc3339(dt) ==
    write_date(dt) \o <<"T">> \o write_hms(dt) \o write_fraction(dt.utc.nano)
        \o write_offset(dt.off.secs, TRUE)

----------------------------------------------------------------------------
(* chrono: parsing                                                         *)

all_digits(s, i, n) == \A k \in i..(i + n - 1) : IsDigit(s[k])

RECURSIVE number(_, _, _)
number(s, i, n) ==
    IF n = 0 THEN 0 ELSE number(s, i, n - 1) * 10 + DigitVal(s[i + n - 1])

\* the length of the run of digits of s that starts at position i
RECURSIVE digit_run(_, _)
digit_run(s, i) ==
    IF i <= Len(s) /\ IsDigit(s[i]) THEN 1 + digit_run(s, i + 1) ELSE 0

\* "YYYY-MM-DD" at position 1 and "HH:MM:SS" at position i
date_shape(s) ==
    /\ Len(s) >= 10
    /\ all_digits(s, 1, 4) /\ s[5] = "-"
    /\ all_digits(s, 6, 2) /\ s[8] = "-"
    /\ all_digits(s, 9, 2)

time_shape(s, i) ==
    /\ Len(s) >= i + 7
    /\ all_digits(s, i, 2) /\ s[i + 2] = ":"
    /\ all_digits(s, i + 3, 2) /\ s[i + 5] = ":"
    /\ all_digits(s, i + 6, 2)

date_in_range(s) ==
    /\ number(s, 6, 2) \in 1..12
    /\ number(s, 9, 2) >= 1
    /\ number(s, 9, 2) <= days_in_month(number(s, 1, 4), number(s, 6, 2))

\* leap-second notation (second 60) is not among the texts considered
time_in_range(s, i) ==
    /\ number(s, i, 2) <= 23
    /\ number(s, i + 3, 2) <= 59
    /\ number(s, i + 6, 2) <= 59

\* DateTime::parse_from_rfc3339: date, "T", time, optional fraction, then
\* "Z" or a numeric offset with a colon; the whole text must be consumed
parse_from_rfc3339(s) ==
    LET n      == Len(s)
        frac   == IF n >= 20 /\ s[20] = "." THEN digit_run(s, 21) ELSE 0
        p      == IF n >= 20 /\ s[20] = "." THEN 21 + frac ELSE 20
        used   == IF frac > 9 THEN 9 ELSE frac
        nano   == number(s, 21, used) * 10 ^ (9 - used)
        zulu   == p = n /\ s[p] \in {"Z", "z"}
        numoff == /\ n = p + 5
                  /\ s[p] \in {"+", "-"}
                  /\ all_digits(s, p + 1, 2) /\ s[p + 3] = ":"
                  /\ all_digits(s, p + 4, 2)
                  /\ number(s, p + 1, 2) <= 23 /\ number(s, p + 4, 2) <= 59
        mag    == number(s, p + 1, 2) * 3600 + number(s, p + 4, 2) * 60
        off    == IF zulu THEN 0 ELSE IF s[p] = "-" THEN -mag ELSE mag
        local  == number(s, 12, 2) * 3600 + number(s, 15, 2) * 60
                      + number(s, 18, 2)
        day    == days_from_civil(number(s, 1, 4), number(s, 6, 2),
                                  number(s, 9, 2))
    IN  IF /\ n >= 20
           /\ date_shape(s) /\ s[11] \in {"T", "t", " "} /\ time_shape(s, 12)
           /\ (s[20] = "." => frac >= 1)
           /\ (zulu \/ numoff)
           /\ date_in_range(s) /\ time_in_range(s, 12)
        THEN Ok([utc |-> add_secs(Instant(day, 0, nano), local - off),
                 off |-> [secs |-> off, abbr |-> write_offset(off, TRUE)]])
        ELSE Err("ParseError", s)

FMT_DATETIME == "%Y-%m-%d %H:%M:%S"

FMT_DATE == "%Y-%m-%d"

\* format::parse with the items of fmt: the fields the text sets.  Neither
\* format has an offset item, so the offset field stays unset.
parse_items(s, fmt) ==
    IF fmt = FMT_DATETIME
    THEN IF /\ Len(s) = 19 /\ date_shape(s) /\ s[11] = " " /\ time_shape(s, 12)
            /\ date_in_range(s) /\ time_in_range(s, 12)
         THEN Ok([day    |-> days_from_civil(number(s, 1, 4), number(s, 6, 2),
                                             number(s, 9, 2)),
                  sod    |-> Some(number(s, 12, 2) * 3600
                                  + number(s, 15, 2) * 60 + number(s, 18, 2)),
                  offset |-> None])
         ELSE Err("ParseError", s)
    ELSE IF Len(s) = 10 /\ date_shape(s) /\ date_in_range(s)
         THEN Ok([day    |-> days_from_civil(number(s, 1, 4), number(s, 6, 2),
                                             number(s, 9, 2)),
                  sod    |-> None,
                  offset |-> None])
         ELSE Err("ParseError", s)

\* Parsed::to_datetime: a DateTime<FixedOffset> needs the time of day and
\* the offset among the parsed fields, and is NOT_ENOUGH without them
to_datetime(parsed, s) ==
    IF ~parsed.sod.some \/ ~parsed.offset.some
    THEN Err("ParseError", s)
    ELSE Ok([utc |-> add_secs(Instant(parsed.day, 0, 0),
                              parsed.sod.val - parsed.offset.val),
             off |-> [secs |-> parsed.offset.val,
                      abbr |-> write_offset(parsed.offset.val, TRUE)]])

\* DateTime::<FixedOffset>::parse_from_str
parse_from_str(s, fmt) ==
    IF parse_items(s, fmt).ok
    THEN to_datetime(parse_items(s, fmt).val, s)
    ELSE parse_items(s, fmt)

----------------------------------------------------------------------------
(* TimeDateServer: the bodies of the tools and resources.  `now` is the    *)
(* reading Utc::now() or Local::now() returns during the call.             *)

STR_now == <<"n", "o", "w">>

STR_Local == <<"L", "o", "c", "a", "l">>

STR_local == <<"l", "o", "c", "a", "l">>

STR_all == <<"a", "l", "l">>

\* a server that remembers the zone asked for last and falls back to it,
\* instead of UTC, when a request names no zone
resolve_timezone_remembering(timezone) ==
    LET seen == last["c2"].req
        kept == IF /\ seen.op \in {"get_time_at", "calculate_time_offset",
                                   "get_current_time"}
                   /\ seen.timezone.some
                   /\ IsZone(seen.timezone.val)
                THEN seen.timezone.val
                ELSE ZONE_UTC
    IN  IF ~timezone.some THEN Ok(kept)
        ELSE IF IsZone(timezone.val) THEN Ok(timezone.val)
        ELSE Err("Invalid timezone", timezone.val)

\* match timezone { Some(tz_str) => Tz::from_str(..).map_err(..)?,
\*                  None => chrono_tz::UTC }
resolve_timezone(timezone) ==
    IF ~timezone.some THEN Ok(ZONE_UTC)
    ELSE IF IsZone(timezone.val) THEN Ok(timezone.val)
    ELSE Err("Invalid timezone", timezone.val)

\* is_dst derived from the zone's rules
format_time_info_deriving_dst(dt) ==
    [timestamp  |-> to_rfc3339(dt),
     timezone   |-> dt.off.abbr,
     utc_offset |-> write_offset(dt.off.secs, FALSE),
     is_dst     |-> dt.off.abbr = <<"E", "D", "T">>,
     format_12h |-> write_hms_12(dt),
     format_24h |-> write_hms(dt)]

format_time_info(dt) ==
    [timestamp  |-> to_rfc3339(dt),
     timezone   |-> dt.off.abbr,
     utc_offset |-> write_offset(dt.off.secs, FALSE),
     is_dst     |-> FALSE,
     format_12h |-> write_hms_12(dt),
     format_24h |-> write_hms(dt)]

\* a.or_else(|_| b)
or_else(a, b) == IF a.ok THEN a ELSE b

get_time_at(date_time, timezone) ==
    LET tz  == resolve_timezone(timezone)
        dt  == or_else(or_else(parse_from_rfc3339(date_time),
                               parse_from_str(date_time, FMT_DATETIME)),
                       parse_from_str(date_time, FMT_DATE))
    IN  IF ~tz.ok THEN tz
        ELSE IF ~dt.ok THEN Err("Invalid date format", date_time)
        ELSE Ok(format_time_info(with_timezone(dt.val.utc, tz.val)))

\* the years a chrono date can hold; DateTime + Duration panics outside
MAX_YEAR == 262142

MIN_YEAR == -262143

\* DateTime + Duration::hours(h): h * 3600 seconds on the UTC time line.
\* The hours are split into whole days and a rest so that no intermediate
\* value leaves the 32-bit integers of the model checker.
add_hours(t, h) ==
    LET total == t.sod + (h % 24) * 3600
    IN  Instant(t.day + h \div 24 + total \div SECS_PER_DAY,
                total % SECS_PER_DAY, t.nano)

in_range(dt) ==
    /\ date_of(dt).year >= MIN_YEAR
    /\ date_of(dt).year <= MAX_YEAR

\* the hours added to the wall clock of the zone: the result is read with
\* the offset in force after the shift, so an hour across a transition is
\* not 3600 seconds
calculate_time_offset_on_wall_clock(base_time, offset_hours, timezone, now) ==
    LET tz        == resolve_timezone(timezone)
        parsed    == or_else(parse_from_rfc3339(base_time),
                             parse_from_str(base_time, FMT_DATETIME))
        base_dt   == IF to_lowercase(base_time) = STR_now
                     THEN Ok(with_timezone(now, tz.val))
                     ELSE IF parsed.ok
                     THEN Ok(with_timezone(parsed.val.utc, tz.val))
                     ELSE Err("Invalid date format", base_time)
        moved     == with_timezone(add_hours(base_dt.val.utc, offset_hours),
                                   tz.val)
        result_dt == with_timezone(
                         add_secs(moved.utc,
                                  base_dt.val.off.secs - moved.off.secs),
                         tz.val)
    IN  IF ~tz.ok THEN tz
        ELSE IF ~base_dt.ok THEN base_dt
        ELSE IF ~in_range(result_dt) THEN Err("panic", base_time)
        ELSE Ok(format_time_info(result_dt))

calculate_time_offset(base_time, offset_hours, timezone, now) ==
    LET tz        == resolve_timezone(timezone)
        parsed    == or_else(parse_from_rfc3339(base_time),
                             parse_from_str(base_time, FMT_DATETIME))
        base_dt   == IF to_lowercase(base_time) = STR_now
                     THEN Ok(with_timezone(now, tz.val))
                     ELSE IF parsed.ok
                     THEN Ok(with_timezone(parsed.val.utc, tz.val))
                     ELSE Err("Invalid date format", base_time)
        result_dt == with_timezone(add_hours(base_dt.val.utc, offset_hours),
                                   tz.val)
    IN  IF ~tz.ok THEN tz
        ELSE IF ~base_dt.ok THEN base_dt
        ELSE IF ~in_range(result_dt) THEN Err("panic", base_time)
        ELSE Ok(format_time_info(result_dt))

\* the text parsed before the zones are resolved
convert_timezone_parsing_first(time, from_timezone, to_timezone, now) ==
    LET parsed == or_else(parse_from_rfc3339(time),
                          parse_from_str(time, FMT_DATETIME))
        dt     == IF to_lowercase(time) = STR_now THEN Ok([utc |-> now])
                  ELSE IF parsed.ok THEN Ok([utc |-> parsed.val.utc])
                  ELSE Err("Invalid time format", time)
    IN  IF ~dt.ok THEN dt
        ELSE IF ~IsZone(from_timezone)
        THEN Err("Invalid source timezone", from_timezone)
        ELSE IF ~IsZone(to_timezone)
        THEN Err("Invalid target timezone", to_timezone)
        ELSE Ok(format_time_info(with_timezone(dt.val.utc, to_timezone)))

convert_timezone(time, from_timezone, to_timezone, now) ==
    LET parsed == or_else(parse_from_rfc3339(time),
                          parse_from_str(time, FMT_DATETIME))
        dt     == IF to_lowercase(time) = STR_now
                  THEN Ok(with_timezone(now, from_timezone))
                  ELSE IF parsed.ok
                  THEN Ok(with_timezone(parsed.val.utc, from_timezone))
                  ELSE Err("Invalid time format", time)
    IN  IF ~IsZone(from_timezone)
        THEN Err("Invalid source timezone", from_timezone)
        ELSE IF ~IsZone(to_timezone)
        THEN Err("Invalid target timezone", to_timezone)
        ELSE IF ~dt.ok THEN dt
        ELSE Ok(format_time_info(with_timezone(dt.val.utc, to_timezone)))

get_current_time_internal(timezone, now) ==
    LET tz == resolve_timezone(timezone)
    IN  IF ~tz.ok THEN tz
        ELSE Ok(format_time_info(with_timezone(now, tz.val)))

get_current_time(timezone, now) == get_current_time_internal(timezone, now)

current_time_resource(timezone, now) ==
    LET tz_option == IF timezone = STR_local THEN None ELSE Some(timezone)
    IN  get_current_time_internal(tz_option, now)

\* Local::now(): the clock seen through the zone of the process (TZ); its
\* "%Z" is the numeric offset, a Local time having no abbreviation
local_now(now, e) ==
    LET dt == with_timezone(now, e.TZ)
    IN  [utc |-> dt.utc,
         off |-> [secs |-> dt.off.secs,
                  abbr |-> write_offset(dt.off.secs, TRUE)]]

get_timezone_info(now, e) ==
    Ok([name         |-> STR_Local,
        current_time |-> write_date(local_now(now, e)) \o <<" ">>
                             \o write_hms(local_now(now, e)) \o <<" ">>
                             \o local_now(now, e).off.abbr,
        utc_offset   |-> write_offset(local_now(now, e).off.secs, FALSE),
        is_dst       |-> FALSE])

timezone_info_resource(now, e) ==
    Ok([name         |-> STR_Local,
        current_time |-> write_date(local_now(now, e)) \o <<" ">>
                             \o write_hms(local_now(now, e)) \o <<" ">>
                             \o local_now(now, e).off.abbr,
        utc_offset   |-> write_offset(local_now(now, e).off.secs, FALSE),
        is_dst       |-> FALSE])

\* std::env::var(..).unwrap_or_default()
unwrap_or_default(v) == IF v.some THEN v.val ELSE <<>>

get_time_format_internal(now, e) ==
    LET is_12_hour == \/ contains(unwrap_or_default(e.LC_TIME), <<"U", "S">>)
                      \/ starts_with(unwrap_or_default(e.LANG), <<"e", "n", "_", "U", "S">>)
    IN  Ok([detected_format  |-> IF is_12_hour THEN <<"1", "2", "-", "h", "o", "u", "r">>
                                 ELSE <<"2", "4", "-", "h", "o", "u", "r">>,
            is_12_hour       |-> is_12_hour,
            current_time_12h |-> write_hms_12(local_now(now, e)),
            current_time_24h |-> write_hms(local_now(now, e))])

get_time_format(now, e) == get_time_format_internal(now, e)

time_format_resource(now, e) == get_time_format_internal(now, e)

\* .take(50)
TAKE_LIMIT == 50

\* a filter compared without folding its case
filter_matches_exact_case(name, filter) ==
    IF filter.some
    THEN contains(to_lowercase(name), filter.val)
    ELSE TRUE

\* the closure of .filter(..): no filter keeps every name
filter_matches(name, filter) ==
    IF filter.some
    THEN contains(to_lowercase(name), to_lowercase(filter.val))
    ELSE TRUE

\* TZ_VARIANTS.iter().map(..).filter(..).take(50).collect(): the iterator
\* is pulled from entry i on, until the catalog ends or 50 names are taken
RECURSIVE take_filtered(_, _, _)
take_filtered(i, acc, filter) ==
    IF i > Len(TZ_VARIANTS) \/ Len(acc) >= TAKE_LIMIT
    THEN acc
    ELSE take_filtered(i + 1,
                       IF filter_matches(TZ_VARIANTS[i], filter)
                       THEN Append(acc, TZ_VARIANTS[i])
                       ELSE acc,
                       filter)

list_timezones_internal(filter) == Ok(take_filtered(1, <<>>, filter))

list_timezones(filter) == list_timezones_internal(filter)

timezone_list_resource(filter) ==
    LET filter_option == IF filter = STR_all THEN None ELSE Some(filter)
    IN  list_timezones_internal(filter_option)

----------------------------------------------------------------------------
(* The requests the callers send                                           *)

Callers == {"c1", "c2"}

\* offset_hours: i32
I32_MAX == 2147483647

I32_MIN == -I32_MAX - 1

ZONE_UNKNOWN == <<"M", "a", "r", "s", "/", "P", "h", "o", "b", "o", "s">>

NOW_TEXTS == {<<"n", "o", "w">>, <<"N", "O", "W">>, <<"N", "o", "w">>}

\* RFC 3339 texts whose instant lies in 2024
RFC3339_TEXTS ==
    {<<"2", "0", "2", "4", "-", "0", "7", "-", "0", "1", "T", "1", "2", ":", "0", "0", ":", "0", "0", "Z">>,
     <<"2", "0", "2", "4", "-", "0", "3", "-", "1", "0", "T", "0", "1", ":", "5", "9", ":", "5", "9", "-", "0", "5", ":", "0", "0">>,
     <<"2", "0", "2", "4", "-", "1", "1", "-", "0", "3", "T", "0", "1", ":", "3", "0", ":", "0", "0", "-", "0", "4", ":", "0", "0">>,
     <<"2", "0", "2", "4", "-", "1", "2", "-", "3", "1", "T", "2", "3", ":", "5", "9", ":", "5", "9", ".", "5", "+", "0", "5", ":", "3", "0">>}

DATETIME_TEXTS == {<<"2", "0", "2", "4", "-", "0", "7", "-", "0", "1", " ", "1", "0", ":", "0", "0", ":", "0", "0">>}

DATE_TEXTS == {<<"2", "0", "2", "4", "-", "0", "7", "-", "0", "1">>}

\* RFC 3339 texts at the two ends of the four-digit years
EDGE_TEXTS ==
    {<<"9", "9", "9", "9", "-", "1", "2", "-", "3", "1", "T", "2", "3", ":", "5", "9", ":", "5", "9", "-", "0", "1", ":", "0", "0">>,
     <<"0", "0", "0", "0", "-", "0", "1", "-", "0", "1", "T", "0", "0", ":", "0", "0", ":", "0", "0", "+", "0", "1", ":", "0", "0">>}

\* what one caller may send to each tool: FULL for a caller alone, SMALL
\* for callers that run side by side
FULL ==
    [texts         |-> NOW_TEXTS \cup RFC3339_TEXTS \cup EDGE_TEXTS
                           \cup DATETIME_TEXTS \cup DATE_TEXTS
                           \cup {<<"n", "o", "t", "-", "a", "-", "d", "a", "t", "e">>},
     zones         |-> {ZONE_NEW_YORK, ZONE_KOLKATA, ZONE_UNKNOWN},
     base_texts    |-> {<<"n", "o", "w">>, <<"N", "O", "W">>,
                        <<"2", "0", "2", "4", "-", "0", "3", "-", "1", "0", "T", "0", "1", ":", "5", "9", ":", "5", "9", "-", "0", "5", ":", "0", "0">>,
                        <<"2", "0", "2", "4", "-", "1", "1", "-", "0", "3", "T", "0", "1", ":", "3", "0", ":", "0", "0", "-", "0", "4", ":", "0", "0">>,
                        <<"9", "9", "9", "9", "-", "1", "2", "-", "3", "1", "T", "2", "3", ":", "5", "9", ":", "5", "9", "-", "0", "1", ":", "0", "0">>,
                        <<"2", "0", "2", "4", "-", "0", "7", "-", "0", "1", " ", "1", "0", ":", "0", "0", ":", "0", "0">>},
     hours         |-> {0, 1, -1, I32_MAX, I32_MIN},
     base_zones    |-> {ZONE_NEW_YORK, ZONE_UNKNOWN},
     convert_texts |-> {<<"n", "o", "w">>, <<"N", "o", "w">>,
                        <<"2", "0", "2", "4", "-", "0", "7", "-", "0", "1", "T", "1", "2", ":", "0", "0", ":", "0", "0", "Z">>,
                        <<"2", "0", "2", "4", "-", "1", "2", "-", "3", "1", "T", "2", "3", ":", "5", "9", ":", "5", "9", ".", "5", "+", "0", "5", ":", "3", "0">>,
                        <<"9", "9", "9", "9", "-", "1", "2", "-", "3", "1", "T", "2", "3", ":", "5", "9", ":", "5", "9", "-", "0", "1", ":", "0", "0">>,
                        <<"0", "0", "0", "0", "-", "0", "1", "-", "0", "1", "T", "0", "0", ":", "0", "0", ":", "0", "0", "+", "0", "1", ":", "0", "0">>,
                        <<"2", "0", "2", "4", "-", "0", "7", "-", "0", "1", " ", "1", "0", ":", "0", "0", ":", "0", "0">>,
                        <<"n", "o", "t", "-", "a", "-", "d", "a", "t", "e">>},
     convert_zones |-> {ZONE_UTC, ZONE_NEW_YORK, ZONE_UNKNOWN},
     filters       |-> {<<"a", "m", "e", "r", "i", "c", "a">>, <<"A", "F", "R", "I", "C", "A">>, <<"a">>, <<"m">>, <<"/", "A">>,
                        <<"N", "e", "w", "_", "Y", "o", "r", "k">>, <<"x", "y", "z">>, <<>>, STR_all}]

SMALL ==
    [texts         |-> {<<"N", "O", "W">>, <<"n", "o", "t", "-", "a", "-", "d", "a", "t", "e">>},
     zones         |-> {ZONE_NEW_YORK, ZONE_UNKNOWN},
     base_texts    |-> {<<"N", "O", "W">>, <<"n", "o", "t", "-", "a", "-", "d", "a", "t", "e">>},
     hours         |-> {1},
     base_zones    |-> {ZONE_UNKNOWN},
     convert_texts |-> {<<"N", "O", "W">>},
     convert_zones |-> {ZONE_NEW_YORK, ZONE_UNKNOWN},
     filters       |-> {<<"a", "m", "e", "r", "i", "c", "a">>}]

optional(S) == {None} \cup {Some(x) : x \in S}

\* the zone rules above are those of 2024: a text at the ends of the
\* four-digit years, or a shift of thousands of years, goes with UTC
rules_cover(text, hours, zone) ==
    (text \in EDGE_TEXTS \/ hours \notin -48..48)
        => zone \in {ZONE_UTC, ZONE_UNKNOWN}

zone_of(timezone) == IF timezone.some THEN timezone.val ELSE ZONE_UTC

----------------------------------------------------------------------------
(* State: the system clock, the process environment, and for each caller   *)
(* the request it sent last with the response it got.  The server itself   *)
(* (a unit struct) and the zone catalog (a static) hold no state.          *)

MaxTicks == 1

CLOCK_START ==
    Instant(days_from_civil(2024, 3, 10), 6 * 3600 + 59 * 60 + 59, 123456789)

ENVIRONMENTS ==
    {[LC_TIME |-> Some(<<"e", "n", "_", "U", "S", ".", "U", "T", "F", "-", "8">>), LANG |-> Some(<<"C">>),
      TZ |-> ZONE_NEW_YORK],
     [LC_TIME |-> None, LANG |-> Some(<<"d", "e", "_", "D", "E", ".", "U", "T", "F", "-", "8">>), TZ |-> ZONE_KOLKATA]}

NO_CALL == [req |-> [op |-> "none"], res |-> Err("none", <<>>),
            at |-> CLOCK_START, origin |-> None]

Init ==
    /\ clock = CLOCK_START
    /\ env \in ENVIRONMENTS
    /\ last = [c \in Callers |-> NO_CALL]

\* caller c sent req while the clock read `clock` and got res
Respond(c, req, res, origin) ==
    /\ last' = [last EXCEPT ![c] = [req |-> req, res |-> res, at |-> clock,
                                    origin |-> origin]]
    /\ UNCHANGED <<clock, env>>

\* the clock moves on by a second
Tick ==
    /\ before(clock, add_secs(CLOCK_START, MaxTicks))
    /\ clock' = add_secs(clock, 1)
    /\ UNCHANGED <<env, last>>

GetTimeAt(c, U) ==
    \E date_time \in U.texts, timezone \in optional(U.zones) :
        /\ rules_cover(date_time, 0, zone_of(timezone))
        /\ Respond(c, [op |-> "get_time_at", date_time |-> date_time,
                       timezone |-> timezone],
                   get_time_at(date_time, timezone), None)

CalculateTimeOffset(c, U) ==
    \E base_time \in U.base_texts, offset_hours \in U.hours,
       timezone \in optional(U.base_zones) :
        /\ rules_cover(base_time, offset_hours, zone_of(timezone))
        /\ Respond(c, [op |-> "calculate_time_offset", base_time |-> base_time,
                       offset_hours |-> offset_hours, timezone |-> timezone],
                   calculate_time_offset(base_time, offset_hours, timezone,
                                         clock),
                   None)

ConvertTimezone(c, U) ==
    \E time \in U.convert_texts, from_timezone \in U.convert_zones,
       to_timezone \in U.convert_zones :
        /\ rules_cover(time, 0, from_timezone)
        /\ rules_cover(time, 0, to_timezone)
        /\ Respond(c, [op |-> "convert_timezone", time |-> time,
                       from_timezone |-> from_timezone,
                       to_timezone |-> to_timezone],
                   convert_timezone(time, from_timezone, to_timezone, clock),
                   None)

\* the caller converts the timestamp it just got back to the zone it came
\* from; origin keeps the text and the clock reading of the first call
ConvertTimezoneBack(c) ==
    /\ last[c].req.op = "convert_timezone"
    /\ last[c].res.ok
    /\ ~last[c].origin.some
    /\ Respond(c, [op |-> "convert_timezone",
                   time |-> last[c].res.val.timestamp,
                   from_timezone |-> last[c].req.to_timezone,
                   to_timezone |-> last[c].req.from_timezone],
               convert_timezone(last[c].res.val.timestamp,
                                last[c].req.to_timezone,
                                last[c].req.from_timezone, clock),
               Some([time |-> last[c].req.time, at |-> last[c].at]))

GetCurrentTime(c, U) ==
    \E timezone \in optional(U.zones) :
        Respond(c, [op |-> "get_current_time", timezone |-> timezone],
                get_current_time(timezone, clock), None)

GetTimezoneInfo(c) ==
    Respond(c, [op |-> "get_timezone_info"], get_timezone_info(clock, env),
            None)

GetTimeFormat(c) ==
    Respond(c, [op |-> "get_time_format"], get_time_format(clock, env), None)

ListTimezones(c, U) ==
    \E filter \in optional(U.filters) :
        Respond(c, [op |-> "list_timezones", filter |-> filter],
                list_timezones(filter), None)

CurrentTimeResource(c, U) ==
    \E timezone \in U.zones \cup {STR_local} :
        Respond(c, [op |-> "current_time_resource", timezone |-> timezone],
                current_time_resource(timezone, clock), None)

TimezoneInfoResource(c) ==
    Respond(c, [op |-> "timezone_info_resource"],
            timezone_info_resource(clock, env), None)

TimezoneListResource(c, U) ==
    \E filter \in U.filters :
        Respond(c, [op |-> "timezone_list_resource", filter |-> filter],
                timezone_list_resource(filter), None)

TimeFormatResource(c) ==
    Respond(c, [op |-> "time_format_resource"],
            time_format_resource(clock, env), None)

Call(c, U) ==
    \/ GetTimeAt(c, U)
    \/ CalculateTimeOffset(c, U)
    \/ ConvertTimezone(c, U)
    \/ ConvertTimezoneBack(c)
    \/ GetCurrentTime(c, U)
    \/ GetTimezoneInfo(c)
    \/ GetTimeFormat(c)
    \/ ListTimezones(c, U)
    \/ CurrentTimeResource(c, U)
    \/ TimezoneInfoResource(c)
    \/ TimezoneListResource(c, U)
    \/ TimeFormatResource(c)

\* one caller, every request
Next == Tick \/ Call("c1", FULL)

Spec == Init /\ [][Next]_vars

\* callers side by side
NextPair == Tick \/ \E c \in Callers : Call(c, SMALL)

SpecPair == Init /\ [][NextPair]_vars

----------------------------------------------------------------------------
(* Reading a response: the instant and the offset a timestamp denotes      *)
(* (ISO 8601, the year with an explicit sign outside 0000..9999).          *)

t_pos(ts) == CHOOSE i \in 1..Len(ts) : ts[i] = "T"

offset_written(ts) ==
    LET n == Len(ts)
    IN  IF ts[n] = "Z" THEN 0
        ELSE (IF ts[n - 5] = "-" THEN -1 ELSE 1)
                 * (number(ts, n - 4, 2) * 3600 + number(ts, n - 1, 2) * 60)

instant_written(ts) ==
    LET t     == t_pos(ts)
        first == IF ts[1] \in {"+", "-"} THEN 2 ELSE 1
        year  == (IF ts[1] = "-" THEN -1 ELSE 1) * number(ts, first, t - 6 - first)
        frac  == IF ts[t + 9] = "." THEN digit_run(ts, t + 10) ELSE 0
        nano  == number(ts, t + 10, frac) * 10 ^ (9 - frac)
        wall  == number(ts, t + 1, 2) * 3600 + number(ts, t + 4, 2) * 60
                     + number(ts, t + 7, 2)
    IN  add_secs(Instant(days_from_civil(year, number(ts, t - 5, 2),
                                         number(ts, t - 2, 2)), 0, nano),
                 wall - offset_written(ts))

\* t moved by h hours of absolute time
shifted(t, h) ==
    LET secs == t.sod + 3600 * (h % 24)
        days == t.day + (h \div 24)
    IN  IF secs >= SECS_PER_DAY
        THEN Instant(days + 1, secs - SECS_PER_DAY, t.nano)
        ELSE Instant(days, secs, t.nano)

\* the offset of zone z in force at the wall-clock time sod of day
civil_offset(z, day, sod) ==
    CHOOSE o \in {-5 * 3600, -4 * 3600, 0, 19800} :
        offset_from_utc_datetime(z, add_secs(Instant(day, sod, 0), -o)).secs = o

\* the fields of a TimeInfo agree with its timestamp
consistent(info) ==
    LET ts  == info.timestamp
        n   == Len(ts)
        t   == t_pos(ts)
        h24 == number(ts, t + 1, 2)
        h12 == IF h24 % 12 = 0 THEN 12 ELSE h24 % 12
    IN  /\ info.format_24h = SubSeq(ts, t + 1, t + 8)
        /\ info.format_12h = <<Digits[(h12 \div 10) + 1], Digits[(h12 % 10) + 1]>>
                                 \o SubSeq(ts, t + 3, t + 8) \o <<" ">>
                                 \o (IF h24 < 12 THEN <<"A", "M">> ELSE <<"P", "M">>)
        /\ info.utc_offset = SubSeq(ts, n - 5, n - 3) \o SubSeq(ts, n - 1, n)

\* s is contained in name, letter case ignored
within(s, name) ==
    \E i \in 0..(Len(name) - Len(s)) :
        \A k \in 1..Len(s) : LowerChar(name[i + k]) = LowerChar(s[k])

TIME_OPS == {"get_time_at", "calculate_time_offset", "convert_timezone"}

\* the zone a time request is read in, the zone its answer is shown in,
\* its text and its shift in hours
ref_zone(req) ==
    IF req.op = "convert_timezone" THEN req.from_timezone
    ELSE zone_of(req.timezone)

out_zone(req) ==
    IF req.op = "convert_timezone" THEN req.to_timezone
    ELSE zone_of(req.timezone)

text_of(req) ==
    IF req.op = "get_time_at" THEN req.date_time
    ELSE IF req.op = "calculate_time_offset" THEN req.base_time
    ELSE req.time

hours_of(req) ==
    IF req.op = "calculate_time_offset" THEN req.offset_hours ELSE 0

zones_known(req) == IsZone(ref_zone(req)) /\ IsZone(out_zone(req))

----------------------------------------------------------------------------
(* C1                                                                      *)

\* C1 as stated: in get_time_at, calculate_time_offset and convert_timezone,
\* with known zones, the text "now" in any letter case never fails and
\* the answer is the clock's instant (shifted by the hours asked for).
C1_NowEverywhere ==
    \A c \in Callers :
        LET r == last[c]
        IN  (/\ r.req.op \in TIME_OPS
             /\ text_of(r.req) \in NOW_TEXTS
             /\ zones_known(r.req))
            => /\ r.res.ok
               /\ instant_written(r.res.val.timestamp)
                      = shifted(r.at, hours_of(r.req))

\* C1 amended: "now" in any letter case never fails in
\* calculate_time_offset and convert_timezone, where the answer is the
\* clock's instant (shifted by the hours asked for); get_time_at does not
\* know "now" and rejects it as an invalid date format.
C1_NowWhereHonored ==
    \A c \in Callers :
        LET r == last[c]
        IN  (/\ r.req.op \in TIME_OPS
             /\ text_of(r.req) \in NOW_TEXTS
             /\ zones_known(r.req))
            => IF r.req.op = "get_time_at"
               THEN r.res = Err("Invalid date format", r.req.date_time)
               ELSE /\ r.res.ok
                    /\ instant_written(r.res.val.timestamp)
                           = shifted(r.at, hours_of(r.req))
                    /\ consistent(r.res.val)

C1_Witness ==
    \E c \in Callers :
        /\ last[c].req.op = "calculate_time_offset"
        /\ last[c].req.base_time = <<"N", "O", "W">>
        /\ last[c].req.offset_hours = 0
        /\ last[c].res.ok
        /\ instant_written(last[c].res.val.timestamp) = clock
        /\ clock # CLOCK_START

----------------------------------------------------------------------------
(* C2, C3                                                                  *)

\* C2: get_time_at with a bare date "YYYY-MM-DD" and a known zone succeeds
\* with midnight of that date in the zone: format_24h is "00:00:00" and
\* utc_offset is the zone's offset at that midnight.
C2_BareDateIsMidnight ==
    \A c \in Callers :
        LET r   == last[c]
            s   == r.req.date_time
            day == days_from_civil(number(s, 1, 4), number(s, 6, 2),
                                   number(s, 9, 2))
            z   == zone_of(r.req.timezone)
        IN  (/\ r.req.op = "get_time_at"
             /\ r.req.date_time \in DATE_TEXTS
             /\ IsZone(z))
            => /\ r.res.ok
               /\ r.res.val.format_24h = <<"0", "0", ":", "0", "0", ":", "0", "0">>
               /\ r.res.val.utc_offset
                      = write_offset(civil_offset(z, day, 0), FALSE)

\* C3: "YYYY-MM-DD HH:MM:SS" is accepted by the three tools and read as a
\* wall-clock time in the reference zone: the instant is that civil time
\* minus the zone's offset in force at it, and get_time_at answers with
\* the HH:MM:SS of the text.
C3_CivilTimeInZone ==
    \A c \in Callers :
        LET r   == last[c]
            s   == text_of(r.req)
            day == days_from_civil(number(s, 1, 4), number(s, 6, 2),
                                   number(s, 9, 2))
            sod == number(s, 12, 2) * 3600 + number(s, 15, 2) * 60
                       + number(s, 18, 2)
            off == civil_offset(ref_zone(r.req), day, sod)
        IN  (/\ r.req.op \in TIME_OPS
             /\ text_of(r.req) \in DATETIME_TEXTS
             /\ zones_known(r.req))
            => /\ r.res.ok
               /\ instant_written(r.res.val.timestamp)
                      = shifted(add_secs(Instant(day, sod, 0), -off),
                                hours_of(r.req))
               /\ (r.req.op = "get_time_at"
                      => r.res.val.format_24h = SubSeq(s, 12, 19))

----------------------------------------------------------------------------
(* C4, C5, C6                                                              *)

\* the instant a request's text stands for: the clock's for "now"
base_instant(text, at) ==
    IF text \in NOW_TEXTS THEN at ELSE instant_written(text)

\* C4: get_time_at of a valid RFC 3339 text and a known zone answers with a
\* timestamp that denotes the instant of the text, written with the zone's
\* offset at that instant, and utc_offset, format_12h and format_24h show
\* that same instant in the zone.
C4_Rfc3339InstantKept ==
    \A c \in Callers :
        LET r == last[c]
            z == zone_of(r.req.timezone)
        IN  (/\ r.req.op = "get_time_at"
             /\ r.req.date_time \in RFC3339_TEXTS \cup EDGE_TEXTS
             /\ IsZone(z))
            => /\ r.res.ok
               /\ instant_written(r.res.val.timestamp)
                      = instant_written(r.req.date_time)
               /\ offset_written(r.res.val.timestamp)
                      = offset_from_utc_datetime(
                            z, instant_written(r.req.date_time)).secs
               /\ consistent(r.res.val)

C4_Witness ==
    \E c \in Callers :
        /\ last[c].req.op = "get_time_at"
        /\ last[c].req.date_time = <<"2", "0", "2", "4", "-", "0", "7", "-", "0", "1", "T", "1", "2", ":", "0", "0", ":", "0", "0", "Z">>
        /\ last[c].req.timezone = Some(ZONE_NEW_YORK)
        /\ last[c].res.ok
        /\ last[c].res.val.timestamp = <<"2", "0", "2", "4", "-", "0", "7", "-", "0", "1", "T", "0", "8", ":", "0", "0", ":", "0", "0", "-", "0", "4", ":", "0", "0">>
        /\ clock = CLOCK_START

\* C5: calculate_time_offset answers with the base instant plus exactly
\* hours * 3600 seconds of absolute time, for every 32-bit hours; the zone
\* only decides how the result is written.
C5_HoursOnAbsoluteTime ==
    \A c \in Callers :
        LET r    == last[c]
            z    == zone_of(r.req.timezone)
            want == shifted(base_instant(r.req.base_time, r.at),
                            r.req.offset_hours)
        IN  (/\ r.req.op = "calculate_time_offset"
             /\ r.req.base_time \in NOW_TEXTS \cup RFC3339_TEXTS \cup EDGE_TEXTS
             /\ IsZone(z))
            => /\ r.res.ok
               /\ instant_written(r.res.val.timestamp) = want
               /\ offset_written(r.res.val.timestamp)
                      = offset_from_utc_datetime(z, want).secs
               /\ consistent(r.res.val)

\* one hour after 01:30 EDT on the night daylight saving ends is 01:30 EST
C5_Witness ==
    \E c \in Callers :
        /\ last[c].req.op = "calculate_time_offset"
        /\ last[c].req.base_time = <<"2", "0", "2", "4", "-", "1", "1", "-", "0", "3", "T", "0", "1", ":", "3", "0", ":", "0", "0", "-", "0", "4", ":", "0", "0">>
        /\ last[c].req.offset_hours = 1
        /\ last[c].req.timezone = Some(ZONE_NEW_YORK)
        /\ last[c].res.ok
        /\ last[c].res.val.timestamp = <<"2", "0", "2", "4", "-", "1", "1", "-", "0", "3", "T", "0", "1", ":", "3", "0", ":", "0", "0", "-", "0", "5", ":", "0", "0">>

\* C6: for known zones A and B and a text convert_timezone accepts, the
\* timestamp of convert(text, A, B) denotes the instant of the text, and
\* convert(that timestamp, B, A) succeeds and denotes it too.
C6_ConvertRoundTrip ==
    \A c \in Callers :
        LET r == last[c]
        IN  /\ (r.req.op = "convert_timezone" /\ ~r.origin.some /\ r.res.ok)
                => instant_written(r.res.val.timestamp)
                       = base_instant(r.req.time, r.at)
            /\ (r.req.op = "convert_timezone" /\ r.origin.some)
                => /\ r.res.ok
                   /\ instant_written(r.res.val.timestamp)
                          = base_instant(r.origin.val.time, r.origin.val.at)

----------------------------------------------------------------------------
(* C7                                                                      *)

\* the first 50 catalog names that contain the filter, in catalog order
first_matches(filter) ==
    LET all == IF filter.some
               THEN SelectSeq(TZ_VARIANTS, LAMBDA name : within(filter.val, name))
               ELSE TZ_VARIANTS
    IN  SubSeq(all, 1, IF Len(all) < 50 THEN Len(all) ELSE 50)

\* C7: list_timezones returns exactly the first min(50, matches) catalog
\* names that contain the filter as a case-insensitive substring, in
\* catalog order; without a filter, or for the resource token "all", the
\* first 50 catalog names; never more than 50.
C7_FirstFiftyMatches ==
    \A c \in Callers :
        LET r == last[c]
        IN  /\ r.req.op = "list_timezones"
                => /\ r.res = Ok(first_matches(r.req.filter))
                   /\ Len(r.res.val) <= 50
            /\ r.req.op = "timezone_list_resource"
                => /\ r.res = Ok(first_matches(IF r.req.filter = <<"a", "l", "l">>
                                               THEN None
                                               ELSE Some(r.req.filter)))
                   /\ Len(r.res.val) <= 50

\* a filter with more than 50 matches, the first catalog name not among them
C7_Witness ==
    \E c \in Callers :
        /\ last[c].req.op = "list_timezones"
        /\ last[c].req.filter = Some(<<"m">>)
        /\ last[c].res.ok
        /\ Len(last[c].res.val) = 50
        /\ last[c].res.val[1] # TZ_VARIANTS[1]
        /\ last[c].res.val[50] = <<"A", "m", "e", "r", "i", "c", "a", "/", "C", "a", "y", "e", "n", "n", "e">>

----------------------------------------------------------------------------
(* C8, C9                                                                  *)

in_registry(name) == \E i \in 1..Len(TZ_VARIANTS) : TZ_VARIANTS[i] = name

\* C8: convert_timezone reports an unknown from_zone as the source-zone
\* error naming it, an unknown to_zone (from_zone known) as the target-zone
\* error naming it, whatever the text, and answers with a TimeInfo only
\* when both zones are known.
C8_ZoneErrorsFirst ==
    \A c \in Callers :
        LET r == last[c]
        IN  r.req.op = "convert_timezone"
            => /\ ~in_registry(r.req.from_timezone)
                   => r.res = Err("Invalid source timezone",
                                  r.req.from_timezone)
               /\ (in_registry(r.req.from_timezone)
                       /\ ~in_registry(r.req.to_timezone))
                   => r.res = Err("Invalid target timezone", r.req.to_timezone)
               /\ r.res.ok => (in_registry(r.req.from_timezone)
                                  /\ in_registry(r.req.to_timezone))

C8_Witness ==
    \E c \in Callers :
        /\ last[c].req.op = "convert_timezone"
        /\ last[c].req.time = <<"n", "o", "t", "-", "a", "-", "d", "a", "t", "e">>
        /\ last[c].req.from_timezone = ZONE_NEW_YORK
        /\ last[c].req.to_timezone = ZONE_UNKNOWN
        /\ last[c].res = Err("Invalid target timezone", ZONE_UNKNOWN)

DST_OPS == TIME_OPS \cup {"get_current_time", "current_time_resource",
                          "get_timezone_info", "timezone_info_resource"}

\* C9: every TimeInfo and TimezoneInfo has is_dst = false, also for an
\* instant inside the zone's daylight-saving period.
C9_IsDstAlwaysFalse ==
    \A c \in Callers :
        (last[c].req.op \in DST_OPS /\ last[c].res.ok)
            => last[c].res.val.is_dst = FALSE

\* the clock has passed the start of daylight saving in New York
C9_Witness ==
    \E c \in Callers :
        /\ last[c].req.op = "get_current_time"
        /\ last[c].req.timezone = Some(ZONE_NEW_YORK)
        /\ last[c].res.ok
        /\ last[c].res.val.timezone = <<"E", "D", "T">>
        /\ last[c].res.val.utc_offset = <<"-", "0", "4", "0", "0">>
        /\ last[c].res.val.is_dst = FALSE

----------------------------------------------------------------------------
(* C10                                                                     *)

\* C10: calls do not interfere: the response to a call is determined by
\* its own arguments, the clock reading and the environment. Two callers
\* that sent the same request at the same clock reading hold the same
\* response, whatever either of them and the other caller asked before,
\* requests that failed on the text or on the zone included.
C10_Determined ==
    \A c, d \in Callers :
        (/\ last[c].req.op # "none"
         /\ last[c].req.op = last[d].req.op
         /\ last[c].req = last[d].req
         /\ last[c].at = last[d].at)
            => last[c].res = last[d].res

\* both callers hold the same answer to the same request, made at the same
\* clock reading, and the clock has moved on since
C10_Witness ==
    /\ last["c1"].req.op = "get_current_time"
    /\ last["c2"].req.op = "get_current_time"
    /\ last["c1"].req = last["c2"].req
    /\ last["c1"].at = last["c2"].at
    /\ last["c1"].res.ok
    /\ last["c1"].res = last["c2"].res
    /\ clock # last["c1"].at

====
